---- MODULE Spec2Model ----
(***************************************************************************)
(* Model of hw5.py: a command-line client that fetches the PrivatBank      *)
(* exchange-rate archive for a trailing window of days.                    *)
(*                                                                         *)
(*   CurrencyRateFetcher  -- owns the aiohttp session (__aenter__ /        *)
(*                           __aexit__) and fetch_rate(date)               *)
(*   ExchangeRateService  -- get_rates(days) and _extract_rates(data,date) *)
(*   main                 -- argument handling, the async-with scope       *)
(*                                                                         *)
(* Strings stand for Python strings; a command-line argument is the        *)
(* sequence of its Unicode code points so that int() can be modelled by    *)
(* what it does.                                                           *)
(* A JSON number is kept as the string of its text: the program only       *)
(* copies rates, it never computes with them.                              *)
(***************************************************************************)
EXTENDS Integers, Sequences, FiniteSets, TLC

(***************************************************************************)
(* Bounds of the model (not program constants).                            *)
(***************************************************************************)
\* how many days of one run may answer differently from the API's usual answer
MaxDeviations == 1
\* longest exchangeRate list drawn for the extraction specification
MaxRecords == 2
\* the largest magnitude an integer of the model takes; it stands for itself
\* and for every larger magnitude (Python integers are unbounded)
MaxInt == 1000000000

(***************************************************************************)
(* Program constants.                                                      *)
(***************************************************************************)
\* hw5.py:42 and :80, `days < 1`
MIN_DAYS == 1
\* hw5.py:42 and :80, `days > 10`
MAX_DAYS == 10
\* hw5.py:75, the most digits int() converts (sys.get_int_max_str_digits())
MAX_STR_DIGITS == 4300

\* Python's None (also what json() gives for a JSON null)
None == "None"

NoExc == [type |-> "none", msg |-> ""]

(***************************************************************************)
(* int(sys.argv[1]), hw5.py:75.  A character is its Unicode code point.    *)
(* int() strips the surrounding whitespace, accepts one ASCII sign, then   *)
(* decimal digits of any script (Unicode category Nd) in which single      *)
(* ASCII underscores may separate digits; anything else raises ValueError, *)
(* and so does a text of more than MAX_STR_DIGITS digits.                  *)
(* The operators walk a text by index, not by recursion on its length, so  *)
(* that they are defined on arguments of thousands of characters.          *)
(***************************************************************************)
\* the code point of the digit zero of every Nd block (Unicode 14, the
\* database of the interpreter); the nine code points after it are 1..9
DecimalZeros ==
    { 48, 1632, 1776, 1984, 2406, 2534, 2662, 2790,
      2918, 3046, 3174, 3302, 3430, 3558, 3664, 3792,
      3872, 4160, 4240, 6112, 6160, 6470, 6608, 6784,
      6800, 6992, 7088, 7232, 7248, 42528, 43216, 43264,
      43472, 43504, 43600, 44016, 65296, 66720, 68912, 69734,
      69872, 69942, 70096, 70384, 70736, 70864, 71248, 71360,
      71472, 71904, 72016, 72784, 73040, 73120, 92768, 92864,
      93008, 120782, 120792, 120802, 120812, 120822, 123200, 123632,
      125264, 130032 }

\* the characters int() strips: \t \n \v \f \r, space, U+0085, U+00A0,
\* U+1680, U+2000..U+200A, U+2028, U+2029, U+202F, U+205F, U+3000
Whitespace ==
    {9, 10, 11, 12, 13, 32, 133, 160, 5760} \cup (8192..8202)
        \cup {8232, 8233, 8239, 8287, 12288}

IsDigit(c) == \E z \in DecimalZeros : c \in z..(z + 9)

DigitVal(c) == c - (CHOOSE z \in DecimalZeros : c \in z..(z + 9))

IsSpace(c) == c \in Whitespace

\* s without its leading whitespace
LStrip(s) ==
    IF \A k \in 1..Len(s) : IsSpace(s[k])
    THEN <<>>
    ELSE SubSeq(s, CHOOSE k \in 1..Len(s) :
                       ~IsSpace(s[k]) /\ \A j \in 1..(k - 1) : IsSpace(s[j]),
                Len(s))

\* s without its trailing whitespace
RStrip(s) ==
    IF \A k \in 1..Len(s) : IsSpace(s[k])
    THEN <<>>
    ELSE SubSeq(s, 1, CHOOSE k \in 1..Len(s) :
                          ~IsSpace(s[k]) /\ \A j \in (k + 1)..Len(s) : IsSpace(s[j]))

\* acc * 10 + d, kept at MaxInt once it is reached
Accumulate(acc, d) ==
    IF acc > (MaxInt - 9) \div 10 THEN MaxInt ELSE 10 * acc + d

\* digits, with single underscores (code point 95) only between two digits
DigitsSyntax(s) ==
    /\ s # <<>>
    /\ \A k \in 1..Len(s) :
          \/ IsDigit(s[k])
          \/ /\ s[k] = 95
             /\ 1 < k
             /\ k < Len(s)
             /\ IsDigit(s[k - 1])
             /\ IsDigit(s[k + 1])

\* the number of digits of the text, leading zeros included, underscores not
DigitCount(s) == Cardinality({k \in 1..Len(s) : IsDigit(s[k])})

\* the value of a text of digits and underscores read from the left; the
\* rest is not read once the value is MaxInt
RECURSIVE DigitsValue(_, _)
DigitsValue(s, acc) ==
    IF s = <<>> \/ acc = MaxInt
    THEN acc
    ELSE IF Head(s) = 95
         THEN DigitsValue(Tail(s), acc)
         ELSE DigitsValue(Tail(s), Accumulate(acc, DigitVal(Head(s))))

\* c is a digit other than a zero
NonZeroDigit(c) == IsDigit(c) /\ DigitVal(c) # 0

\* the text after the sign: ok is FALSE where int() raises ValueError
ParseDigits(s) ==
    IF ~DigitsSyntax(s) \/ DigitCount(s) > MAX_STR_DIGITS
    THEN [ok |-> FALSE, value |-> 0]
    ELSE IF \A k \in 1..Len(s) : ~NonZeroDigit(s[k])
    THEN [ok |-> TRUE, value |-> 0]
    ELSE [ok |-> TRUE,
          value |-> DigitsValue(
                        SubSeq(s, CHOOSE k \in 1..Len(s) :
                                      /\ NonZeroDigit(s[k])
                                      /\ \A j \in 1..(k - 1) : ~NonZeroDigit(s[j]),
                               Len(s)),
                        0)]

\* the signs are "-" (45) and "+" (43)
ParseInt(arg) ==
    LET s    == RStrip(LStrip(arg))
        neg  == s # <<>> /\ Head(s) = 45
        sign == s # <<>> /\ Head(s) \in {45, 43}
        body == IF sign THEN Tail(s) ELSE s
        p    == ParseDigits(body)
    IN  [ok |-> p.ok, value |-> IF neg THEN 0 - p.value ELSE p.value]

(***************************************************************************)
(* (today - timedelta(days=i)).strftime("%d.%m.%Y"), hw5.py:49.            *)
(* datetime arithmetic goes through proleptic Gregorian ordinals, as       *)
(* CPython's date.toordinal / date.fromordinal do.                         *)
(***************************************************************************)
IsLeap(y) == y % 4 = 0 /\ (y % 100 # 0 \/ y % 400 = 0)

DaysInMonth(y, m) ==
    CASE m \in {1, 3, 5, 7, 8, 10, 12} -> 31
      [] m \in {4, 6, 9, 11} -> 30
      [] OTHER -> IF IsLeap(y) THEN 29 ELSE 28

DaysBeforeYear(y) ==
    LET p == y - 1 IN p * 365 + (p \div 4) - (p \div 100) + (p \div 400)

RECURSIVE DaysBeforeMonth(_, _)
DaysBeforeMonth(y, m) ==
    IF m = 1 THEN 0 ELSE DaysBeforeMonth(y, m - 1) + DaysInMonth(y, m - 1)

ToOrdinal(dt) == DaysBeforeYear(dt.y) + DaysBeforeMonth(dt.y, dt.m) + dt.d

FromOrdinal(ord) ==
    LET n0   == ord - 1
        di400 == DaysBeforeYear(401)
        di100 == DaysBeforeYear(101)
        di4   == DaysBeforeYear(5)
        n400 == n0 \div di400
        r400 == n0 % di400
        n100 == r400 \div di100
        r100 == r400 % di100
        n4   == r100 \div di4
        r4   == r100 % di4
        n1   == r4 \div 365
        n    == r4 % 365
        year == n400 * 400 + 1 + n100 * 100 + n4 * 4 + n1
        leap == n1 = 3 /\ (n4 # 24 \/ n100 = 3)
        mEst == (n + 50) \div 32
        pEst == DaysBeforeMonth(IF leap THEN 4 ELSE 1, mEst)
        over == pEst > n
        mon  == IF over THEN mEst - 1 ELSE mEst
        prec == DaysBeforeMonth(IF leap THEN 4 ELSE 1, mon)
    IN  IF n1 = 4 \/ n100 = 4
        THEN [y |-> year - 1, m |-> 12, d |-> 31]
        ELSE [y |-> year, m |-> mon, d |-> n - prec + 1]

Pad2(n) == IF n < 10 THEN "0" \o ToString(n) ELSE ToString(n)

Strftime(dt) == Pad2(dt.d) \o "." \o Pad2(dt.m) \o "." \o ToString(dt.y)

\* the date string of loop iteration i
DateOf(now, i) == Strftime(FromOrdinal(ToOrdinal(now) - i))

(***************************************************************************)
(* JSON bodies.  A body parsed by response.json() is                       *)
(*   type "null"  -- JSON null (Python None)                               *)
(*   type "list"  -- a JSON array; `other` tells whether it is non-empty   *)
(*   type "dict"  -- a JSON object; hasRates tells whether it has the key  *)
(*                   "exchangeRate" (then exchangeRate is its list), other *)
(*                   whether it has any further key ("date", "bank", ...)  *)
(* A rate record is a function from the keys it has to their values.       *)
(***************************************************************************)
MkPayload(type, hasRates, other, records) ==
    [type |-> type, hasRates |-> hasRates, other |-> other, exchangeRate |-> records]

MkRate(keys, cur, sale, purchase) ==
    [k \in keys |-> CASE k = "currency" -> cur
                      [] k = "saleRate" -> sale
                      [] k = "purchaseRate" -> purchase]

\* Python truth value of a parsed body, `if data:` at hw5.py:51
Truthy(data) ==
    CASE data.type = "null" -> FALSE
      [] data.type = "list" -> data.other
      [] OTHER -> data.hasRates \/ data.other

\* dict.get(key) with the default None, hw5.py:64-65
DictGet(rate, key) == IF key \in DOMAIN rate THEN rate[key] ELSE None

\* result[date][cur] = {...}: a dict assignment, the last one for a key wins
DictSet(dict, key, val) ==
    [k \in DOMAIN dict \cup {key} |-> IF k = key THEN val ELSE dict[k]]

EmptyDict == [k \in {} |-> None]

\* the currencies of interest in a mutated form: one currency more
TargetCurrenciesMutant == {"EUR", "USD", "PLN"}

\* the currencies of interest, hw5.py:62
TargetCurrencies == {"EUR", "USD"}

\* the loop of hw5.py:61-66 over the records from position n on; acc is
\* result[date].  A record without the key "currency" raises KeyError.
RECURSIVE ExtractLoop(_, _, _)
ExtractLoop(records, n, acc) ==
    IF n > Len(records)
    THEN [exc |-> NoExc, dict |-> acc]
    ELSE LET rate == records[n] IN
         IF "currency" \notin DOMAIN rate
         THEN [exc |-> [type |-> "KeyError", msg |-> "'currency'"], dict |-> acc]
         ELSE IF rate["currency"] \in TargetCurrencies
              THEN ExtractLoop(records, n + 1,
                       DictSet(acc, rate["currency"],
                               [sale     |-> DictGet(rate, "saleRate"),
                                purchase |-> DictGet(rate, "purchaseRate")]))
              ELSE ExtractLoop(records, n + 1, acc)

\* _extract_rates(data, date), hw5.py:58-67.  value is <<>> for None and
\* <<[date, rates]>> for the one-key dict {date: rates}.  A body that is not
\* a dict has no .get: AttributeError.
ExtractRates(data, date) ==
    IF data.type # "dict"
    THEN [exc |-> [type |-> "AttributeError", msg |-> "get"], value |-> <<>>]
    ELSE LET r == ExtractLoop(IF data.hasRates THEN data.exchangeRate ELSE <<>>,
                              1, EmptyDict)
         IN  IF r.exc # NoExc
             THEN [exc |-> r.exc, value |-> <<>>]
             ELSE [exc |-> NoExc,
                   value |-> IF r.dict # EmptyDict
                             THEN <<[date |-> date, rates |-> r.dict]>>
                             ELSE <<>>]

\* the body of the loop after the fetch in a mutated form: the entry is put
\* at the front of the list
ProcessDayMutant(rates, data, date) ==
    IF ~Truthy(data)
    THEN [exc |-> NoExc, rates |-> rates]
    ELSE LET e == ExtractRates(data, date) IN
         [exc |-> e.exc, rates |-> e.value \o rates]

\* the body of the loop after the fetch, hw5.py:51-54: the new value of
\* `rates`, or the exception that leaves get_rates
ProcessDay(rates, data, date) ==
    IF ~Truthy(data)
    THEN [exc |-> NoExc, rates |-> rates]
    ELSE LET e == ExtractRates(data, date) IN
         [exc |-> e.exc, rates |-> rates \o e.value]

(***************************************************************************)
(* What the network does with one GET.                                     *)
(*   transport "ok": a response arrived; otherwise the exception that      *)
(*     session.get raised ("ClientError": aiohttp.ClientError, i.e.        *)
(*     connection, DNS; "TimeoutError": asyncio.TimeoutError, which is not *)
(*     a ClientError)                                                      *)
(*   status: the HTTP status                                               *)
(*   json "ok": the body parses; otherwise the exception response.json()   *)
(*     raises ("JSONDecodeError" is a ValueError, "ContentTypeError" an    *)
(*     aiohttp.ClientError)                                                *)
(***************************************************************************)
MkResponse(transport, status, json, body) ==
    [transport |-> transport, status |-> status, json |-> json, body |-> body]

NullBody == MkPayload("null", FALSE, FALSE, <<>>)

\* one line written by print(); value carries the list printed by hw5.py:88
Line(kind, text) == [kind |-> kind, text |-> text, value |-> <<>>]

\* the status test of hw5.py:23-29
StatusBranch(status) ==
    IF status = 200 THEN "json"
    ELSE IF status = 404 THEN "not_found"
    ELSE "raise"

\* the exception raised inside the try block of fetch_rate, hw5.py:21-29
\* ("none": none, the body is returned or 404 was reported)
RaisedInTry(resp) ==
    IF resp.transport # "ok" THEN resp.transport
    ELSE CASE StatusBranch(resp.status) = "json" ->
                 IF resp.json = "ok" THEN "none" ELSE resp.json
           [] StatusBranch(resp.status) = "not_found" -> "none"
           [] OTHER -> "ValueError"

\* which except clause of hw5.py:30-35 takes an exception raised in the try
HandlerOf(excType) ==
    IF excType \in {"ClientError", "ContentTypeError"} THEN "ClientError"
    ELSE "Exception"

\* what the try block prints, hw5.py:26
LinesInTry(resp, date) ==
    IF resp.transport = "ok" /\ StatusBranch(resp.status) = "not_found"
    THEN <<Line("no_data", date)>>
    ELSE <<>>

\* what the except clauses print, hw5.py:31 and :34
LinesInHandlers(resp, date) ==
    LET e == RaisedInTry(resp) IN
    IF e = "none" THEN <<>>
    ELSE IF HandlerOf(e) = "ClientError"
         THEN <<Line("network_error", date)>>
         ELSE <<Line("unexpected_error", date)>>

\* fetch_rate(date) as a whole once the network has answered, hw5.py:22-35:
\*   raised -- the exception that leaves fetch_rate (NoExc: it returns)
\*   data   -- its return value (NullBody for None)
\*   lines  -- what it printed
FetchRate(resp, date) ==
    [raised |-> NoExc,
     data   |-> IF RaisedInTry(resp) = "none" /\ StatusBranch(resp.status) = "json"
                THEN resp.body ELSE NullBody,
     lines  |-> LinesInTry(resp, date) \o LinesInHandlers(resp, date)]

(***************************************************************************)
(* Inputs.                                                                 *)
(***************************************************************************)
\* sys.argv[1:], each argument the sequence of its code points
ArgvInputs ==
    { <<>>,                                  \* no argument
      << <<51>>, <<52>> >>,                  \* "3" "4"
      << <<97, 98, 99>> >>,                  \* "abc"
      << <<>> >>,                            \* ""
      << <<50, 46, 53>> >>,                  \* "2.5"
      << <<95, 49>> >>,                      \* "_1"
      << <<8722, 49>> >>,                    \* U+2212 MINUS SIGN, "1"
      << <<28, 53>> >>,                      \* U+001C, "5"
      << <<45, 49>> >>,                      \* "-1"
      << <<48>> >>,                          \* "0"
      << <<49>> >>,                          \* "1"
      << <<43, 50>> >>,                      \* "+2"
      << <<1635>> >>,                        \* U+0663 ARABIC-INDIC DIGIT THREE
      << <<13, 53, 10>> >>,                  \* "\r5\n"
      << <<49, 48>> >>,                      \* "10"
      << <<49, 95, 49>> >>,                  \* "1_1"
      << <<49, 50>> >>,                      \* "12"
      << <<57, 57, 57, 57, 57, 57, 57, 57, 57, 57, 57>> >>,    \* "99999999999"
      << [k \in 1..MAX_STR_DIGITS |-> 49] >>,         \* "1" MAX_STR_DIGITS times
      << [k \in 1..(MAX_STR_DIGITS + 1) |-> 49] >> }   \* and once more

\* the values of datetime.now(): a day whose window crosses 29 February, a
\* day whose window crosses the new year
Todays ==
    { [y |-> 2024, m |-> 3, d |-> 4],
      [y |-> 2023, m |-> 1, d |-> 3] }

NoDate == [y |-> 0, m |-> 0, d |-> 0]

AllKeys == {"currency", "saleRate", "purchaseRate"}

\* the body of the example: USD and EUR complete, PLN with a sale rate only
FullBody ==
    MkPayload("dict", TRUE, TRUE,
              << MkRate(AllKeys, "USD", "38.5", "38.0"),
                 MkRate(AllKeys, "EUR", "42.0", "41.3"),
                 MkRate({"currency", "saleRate"}, "PLN", "9.0", None) >>)

\* EUR without purchaseRate
PartialBody ==
    MkPayload("dict", TRUE, TRUE,
              << MkRate({"currency", "saleRate"}, "EUR", "42.0", None) >>)

\* no EUR and no USD
OtherBody ==
    MkPayload("dict", TRUE, TRUE, << MkRate(AllKeys, "PLN", "9.0", "8.7") >>)

\* {}
EmptyBody == MkPayload("dict", FALSE, FALSE, <<>>)

\* a record that has no "currency" key, followed by a USD record
NoCurrencyBody ==
    MkPayload("dict", TRUE, TRUE,
              << MkRate({"saleRate", "purchaseRate"}, None, "27.1", "27.0"),
                 MkRate(AllKeys, "USD", "38.5", "38.0") >>)

\* a non-empty JSON array instead of an object
ListBody == MkPayload("list", FALSE, TRUE, <<>>)

\* what the API may answer to one GET
Responses ==
    { MkResponse("ok", 200, "ok", b) :
          b \in {FullBody, PartialBody, OtherBody, EmptyBody, NoCurrencyBody, ListBody} }
    \cup { MkResponse("ok", 200, "JSONDecodeError", NullBody),
           MkResponse("ok", 404, "ok", NullBody),
           MkResponse("ok", 500, "ok", NullBody),
           MkResponse("ClientError", 0, "ok", NullBody),
           MkResponse("TimeoutError", 0, "ok", NullBody) }

(***************************************************************************)
(* State.                                                                  *)
(***************************************************************************)
VARIABLES
    argv,        \* sys.argv[1:]
    pc,          \* where the single task is: "start", "enter", "call", "loop",
                 \* "await" (the GET is issued), "body" (the answer's status is
                 \* known, its body is being read), "release" (the response
                 \* is being released), "returned", "exit", "done"
    days,        \* main's / get_rates' `days`
    today,       \* get_rates' `today`
    i,           \* the loop variable of get_rates
    rates,       \* get_rates' `rates`
    session,     \* fetcher.session: "none", "open", "closed"
    exc,         \* the exception in flight in the current frame (NoExc: none)
    out,         \* the lines printed so far
    opened,      \* number of ClientSession() constructions
    closed,      \* number of session.close() calls
    called,      \* number of get_rates invocations
    calls,       \* the fetch_rate calls so far: [date, session at the call]
    inflight,    \* GET requests issued whose fetch_rate call has not returned
    outcomes,    \* the network's answers so far, one per issued request
    baseline,    \* the API's usual answer in this run
    deviations   \* answers so far that differ from the usual one

vars == <<argv, pc, days, today, i, rates, session, exc, out, opened, closed,
          called, calls, inflight, outcomes, baseline, deviations>>

\* len(sys.argv)
ArgvLen == Len(argv) + 1

Init ==
    /\ argv \in ArgvInputs
    /\ baseline \in Responses
    /\ pc = "start"
    /\ days = 0
    /\ today = NoDate
    /\ i = 0
    /\ rates = <<>>
    /\ session = "none"
    /\ exc = NoExc
    /\ out = <<>>
    /\ opened = 0
    /\ closed = 0
    /\ called = 0
    /\ calls = <<>>
    /\ inflight = 0
    /\ outcomes = <<>>
    /\ deviations = 0

\* the range test in a mutated form: no upper limit
OutOfRangeMutant(n) == n < MIN_DAYS

\* the range test, hw5.py:42 and :80
OutOfRange(n) == n < MIN_DAYS \/ n > MAX_DAYS

\* main up to the async-with statement, hw5.py:69-82
Main ==
    /\ pc = "start"
    /\ LET p == IF ArgvLen = 2 THEN ParseInt(argv[1]) ELSE [ok |-> FALSE, value |-> 0]
       IN  IF ArgvLen # 2
           THEN /\ out' = Append(out, Line("usage", "Usage: py main.py <days>"))
                /\ pc' = "done"
                /\ days' = days
           ELSE IF ~p.ok
           THEN /\ out' = Append(out, Line("not_integer", "<days> must be an integer."))
                /\ pc' = "done"
                /\ days' = days
           ELSE IF OutOfRange(p.value)
           THEN /\ out' = Append(out, Line("range",
                                 "Please provide a number of days between 1 and 10."))
                /\ pc' = "done"
                /\ days' = p.value
           ELSE /\ out' = out
                /\ pc' = "enter"
                /\ days' = p.value
    /\ UNCHANGED <<argv, today, i, rates, session, exc, opened, closed, called,
                   calls, inflight, outcomes, baseline, deviations>>

\* the session after __aenter__ in a mutated form: no session is created
SessionAfterEnterMutant == "none"

\* the session after __aenter__, hw5.py:13
SessionAfterEnter == "open"

\* `async with CurrencyRateFetcher() as fetcher`, hw5.py:84 with 9-14
AEnter ==
    /\ pc = "enter"
    /\ session' = SessionAfterEnter
    /\ opened' = opened + 1
    /\ pc' = "call"
    /\ UNCHANGED <<argv, days, today, i, rates, exc, out, closed, called, calls,
                   inflight, outcomes, baseline, deviations>>

\* the entry of get_rates in a mutated form: the range is not tested
ValidatesMutant(n) == FALSE

\* the test of hw5.py:42
Validates(n) == OutOfRange(n)

\* service.get_rates(days) up to the loop, hw5.py:85-87 with 41-46
GetRatesCall ==
    /\ pc = "call"
    /\ called' = called + 1
    /\ \E now \in Todays :
         IF Validates(days)
         THEN /\ exc' = [type |-> "ValueError",
                         msg |-> "Days parameter must be between 1 and 10."]
              /\ pc' = "returned"
              /\ UNCHANGED <<today, i, rates>>
         ELSE /\ today' = now
              /\ rates' = <<>>
              /\ i' = 0
              /\ exc' = exc
              /\ pc' = "loop"
    /\ UNCHANGED <<argv, days, session, out, opened, closed, calls, inflight,
                   outcomes, baseline, deviations>>

\* the date of an iteration in a mutated form: the window runs forward
LoopDateMutant(now, k) == DateOf(now, 0 - k)

\* the date of iteration k, hw5.py:49
LoopDate(now, k) == DateOf(now, k)

\* one iteration up to the await of the GET, hw5.py:48-50 with 19-22.
\* Without an open session self.session.get raises (AttributeError on None,
\* RuntimeError on a closed session) inside the try; `except Exception`
\* reports it and fetch_rate returns None.
FetchCall ==
    /\ pc = "loop"
    /\ i < days
    /\ LET date == LoopDate(today, i) IN
       /\ calls' = Append(calls, [date |-> date, session |-> session])
       /\ IF session = "open"
          THEN /\ inflight' = inflight + 1
               /\ pc' = "await"
               /\ UNCHANGED <<i, out>>
          ELSE /\ out' = Append(out, Line("unexpected_error", date))
               /\ i' = i + 1
               /\ pc' = "loop"
               /\ inflight' = inflight
    /\ UNCHANGED <<argv, days, today, rates, session, exc, opened, closed, called,
                   outcomes, baseline, deviations>>

\* the end of a fetch_rate call that issued a GET and of the iteration that
\* made it, hw5.py:30-35 and 51-54: the except clauses print `lines`, the
\* value returned is processed, the loop goes on or get_rates is left
FinishFetch(resp, lines) ==
    LET date == calls[Len(calls)].date
        f    == FetchRate(resp, date)
        pd   == ProcessDay(rates, f.data, date)
    IN  /\ out' = out \o lines
        /\ inflight' = inflight - 1
        /\ IF f.raised # NoExc
           THEN /\ exc' = f.raised
                /\ pc' = "returned"
                /\ UNCHANGED <<rates, i>>
           ELSE IF pd.exc # NoExc
           THEN /\ exc' = pd.exc
                /\ pc' = "returned"
                /\ UNCHANGED <<rates, i>>
           ELSE /\ rates' = pd.rates
                /\ i' = i + 1
                /\ pc' = "loop"
                /\ exc' = exc

\* the GET is answered, hw5.py:22-27 and :29 up to its await.  A transport
\* failure is raised by session.get and ends the call at once; a 200 goes on
\* to await response.json(), a 404 prints and goes on to leave the
\* `async with`, any other status goes on to await response.text().
FetchAnswered ==
    /\ pc = "await"
    /\ \E resp \in Responses \cup {baseline} :
         /\ IF resp = baseline THEN TRUE ELSE deviations < MaxDeviations
         /\ deviations' = IF resp = baseline THEN deviations ELSE deviations + 1
         /\ outcomes' = Append(outcomes, resp)
         /\ IF resp.transport # "ok"
            THEN FinishFetch(resp, LinesInHandlers(resp, calls[Len(calls)].date))
            ELSE /\ out' = out \o LinesInTry(resp, calls[Len(calls)].date)
                 /\ pc' = IF StatusBranch(resp.status) = "not_found"
                          THEN "release" ELSE "body"
                 /\ UNCHANGED <<rates, i, exc, inflight>>
    /\ UNCHANGED <<argv, days, today, session, opened, closed, called, calls, baseline>>

\* the body has been read: response.json() (line 24) or response.text()
\* (line 29) is over; what it gave is the answer recorded in outcomes
FetchBody ==
    /\ pc = "body"
    /\ pc' = "release"
    /\ UNCHANGED <<argv, days, today, i, rates, session, exc, out, opened, closed,
                   called, calls, inflight, outcomes, baseline, deviations>>

\* the response is released (the end of the `async with` of line 22); then
\* the except clauses, the return of fetch_rate and the rest of the iteration
FetchRelease ==
    /\ pc = "release"
    /\ LET resp == outcomes[Len(outcomes)] IN
       FinishFetch(resp, LinesInHandlers(resp, calls[Len(calls)].date))
    /\ UNCHANGED <<argv, days, today, session, opened, closed, called, calls,
                   outcomes, baseline, deviations>>

\* the loop is exhausted: `return rates`, hw5.py:48 and 56
GetRatesReturn ==
    /\ pc = "loop"
    /\ i >= days
    /\ pc' = "returned"
    /\ UNCHANGED <<argv, days, today, i, rates, session, exc, out, opened, closed,
                   called, calls, inflight, outcomes, baseline, deviations>>

\* main after get_rates, hw5.py:86-90: print the list, or print a ValueError;
\* any other exception goes on to __aexit__ and out of main
MainResult ==
    /\ pc = "returned"
    /\ IF exc = NoExc
       THEN /\ out' = Append(out, [kind |-> "rates", text |-> "", value |-> rates])
            /\ exc' = exc
       ELSE IF exc.type = "ValueError"
       THEN /\ out' = Append(out, Line("error", exc.msg))
            /\ exc' = NoExc
       ELSE /\ out' = out
            /\ exc' = exc
    /\ pc' = "exit"
    /\ UNCHANGED <<argv, days, today, i, rates, session, opened, closed, called,
                   calls, inflight, outcomes, baseline, deviations>>

\* the number of close() calls of __aexit__ in a mutated form: the session is
\* closed only when the block ended without an exception
ClosesOnExitMutant == IF exc = NoExc THEN 1 ELSE 0

\* __aexit__ closes the session once whatever ended the block, hw5.py:16-17
ClosesOnExit == 1

\* the end of the async-with block, hw5.py:84 with 16-17.  __aexit__ returns
\* None, so an exception in flight continues out of main.
AExit ==
    /\ pc = "exit"
    /\ closed' = closed + ClosesOnExit
    /\ session' = IF ClosesOnExit > 0 THEN "closed" ELSE session
    /\ pc' = "done"
    /\ UNCHANGED <<argv, days, today, i, rates, exc, out, opened, called, calls,
                   inflight, outcomes, baseline, deviations>>

Next ==
    \/ Main
    \/ AEnter
    \/ GetRatesCall
    \/ FetchCall
    \/ FetchAnswered
    \/ FetchBody
    \/ FetchRelease
    \/ GetRatesReturn
    \/ MainResult
    \/ AExit

\* a run of the program
Spec == Init /\ [][Next]_vars

(***************************************************************************)
(* get_rates called directly, by a caller that holds a fetcher (entered or *)
(* not) and passes any integer.                                            *)
(***************************************************************************)
ServiceDays == {-3, -1, 0, 1, 2, 3, 10, 11, 12, 25}

InitService ==
    /\ argv = <<>>
    /\ baseline \in Responses
    /\ pc = "call"
    /\ days \in ServiceDays
    /\ today = NoDate
    /\ i = 0
    /\ rates = <<>>
    /\ session \in {"none", "open"}
    /\ exc = NoExc
    /\ out = <<>>
    /\ opened = (IF session = "open" THEN 1 ELSE 0)
    /\ closed = 0
    /\ called = 0
    /\ calls = <<>>
    /\ inflight = 0
    /\ outcomes = <<>>
    /\ deviations = 0

NextService ==
    \/ GetRatesCall
    \/ FetchCall
    \/ FetchAnswered
    \/ FetchBody
    \/ FetchRelease
    \/ GetRatesReturn

\* a direct call of get_rates
SpecService == InitService /\ [][NextService]_vars

(***************************************************************************)
(* One day of get_rates whose GET is answered 200 with a well-formed body: *)
(* a JSON object whose exchangeRate records all carry a currency code.     *)
(* The run starts at the await of that GET.                                *)
(***************************************************************************)
BoundedSeqs(S, n) == UNION {[1..k -> S] : k \in 0..n}

RateRecords ==
    { MkRate({"currency"} \cup ks, c, s, "38.0") :
          ks \in SUBSET {"saleRate", "purchaseRate"},
          c \in {"EUR", "USD", "PLN", "eur"},
          s \in {"38.5", "42.0"} }

RawPayloads ==
    { MkPayload("dict", TRUE, TRUE, rs) : rs \in BoundedSeqs(RateRecords, MaxRecords) }
    \cup { MkPayload("dict", FALSE, TRUE, <<>>), EmptyBody }

InitExtract ==
    /\ argv = <<>>
    /\ baseline \in {MkResponse("ok", 200, "ok", b) : b \in RawPayloads}
    /\ pc = "await"
    /\ days = 1
    /\ today \in Todays
    /\ i = 0
    /\ rates = <<>>
    /\ session = "open"
    /\ exc = NoExc
    /\ out = <<>>
    /\ opened = 1
    /\ closed = 0
    /\ called = 1
    /\ calls = <<[date |-> LoopDate(today, 0), session |-> "open"]>>
    /\ inflight = 1
    /\ outcomes = <<>>
    /\ deviations = MaxDeviations

NextExtract ==
    \/ FetchAnswered
    \/ FetchBody
    \/ FetchRelease
    \/ GetRatesReturn

\* the extraction of one day's body
SpecExtract == InitExtract /\ [][NextExtract]_vars

(***************************************************************************)
(* Vocabulary of the properties.  These definitions restate the            *)
(* specification's terms on their own; none of them is used by the model.  *)
(***************************************************************************)
\* the calendar day before dt
PrevDay(dt) ==
    IF dt.d > 1 THEN [y |-> dt.y, m |-> dt.m, d |-> dt.d - 1]
    ELSE IF dt.m > 1
         THEN [y |-> dt.y, m |-> dt.m - 1,
               d |-> IF dt.m - 1 = 2
                     THEN (IF dt.y % 4 = 0 /\ (dt.y % 100 # 0 \/ dt.y % 400 = 0)
                           THEN 29 ELSE 28)
                     ELSE IF dt.m - 1 \in {4, 6, 9, 11} THEN 30 ELSE 31]
         ELSE [y |-> dt.y - 1, m |-> 12, d |-> 31]

\* the n calendar days from dt backwards: dt, the day before, ...
RECURSIVE Window(_, _)
Window(dt, n) == IF n = 0 THEN <<>> ELSE <<dt>> \o Window(PrevDay(dt), n - 1)

\* calendar order
Before(a, b) ==
    \/ a.y < b.y
    \/ a.y = b.y /\ a.m < b.m
    \/ a.y = b.y /\ a.m = b.m /\ a.d < b.d

\* DD.MM.YYYY
DateKey(dt) ==
    (IF dt.d < 10 THEN "0" ELSE "") \o ToString(dt.d) \o "." \o
    (IF dt.m < 10 THEN "0" ELSE "") \o ToString(dt.m) \o "." \o ToString(dt.y)

\* the answer is a 200 whose body is an object with at least one EUR or USD record
HasTargetRecord(resp) ==
    /\ resp.transport = "ok"
    /\ resp.status = 200
    /\ resp.json = "ok"
    /\ resp.body.type = "dict"
    /\ resp.body.hasRates
    /\ \E n \in 1..Len(resp.body.exchangeRate) :
         /\ "currency" \in DOMAIN resp.body.exchangeRate[n]
         /\ resp.body.exchangeRate[n]["currency"] \in {"EUR", "USD"}

\* the answer is an HTTP status other than 200 and 404
IsApiError(resp) == resp.transport = "ok" /\ resp.status \notin {200, 404}

\* the answer is a 404 or the request failed in transport
IsNotFoundOrTransport(resp) ==
    \/ resp.transport # "ok"
    \/ resp.transport = "ok" /\ resp.status = 404

\* the result has an entry for the date
HasEntry(date) == \E j \in 1..Len(rates) : rates[j].date = date

\* the command lines that main must turn away, by kind
UsageArgv == { <<>>, << <<51>>, <<52>> >> }

\* "abc", "", "2.5", "_1", U+2212 then "1", U+001C then "5"
NonIntegerArgv ==
    { << <<97, 98, 99>> >>, << <<>> >>, << <<50, 46, 53>> >>, << <<95, 49>> >>,
      << <<8722, 49>> >>, << <<28, 53>> >> }

\* "-1", "0", "1_1" (eleven), "12", "99999999999"
OutOfRangeArgv ==
    { << <<45, 49>> >>, << <<48>> >>, << <<49, 95, 49>> >>, << <<49, 50>> >>,
      << <<57, 57, 57, 57, 57, 57, 57, 57, 57, 57, 57>> >> }

\* the command line is one argument, the digit "1" written n times
OnesArgv(n) ==
    /\ Len(argv) = 1
    /\ Len(argv[1]) = n
    /\ \A k \in 1..n : argv[1][k] = 49

\* not an integer for int(): the short texts above, and 4301 digits
IsNonIntegerArgv == argv \in NonIntegerArgv \/ OnesArgv(4301)

\* an integer outside 1..10: the short texts above, and 4300 digits
IsOutOfRangeArgv == argv \in OutOfRangeArgv \/ OnesArgv(4300)

(***************************************************************************)
(* C1.  An HTTP status other than 200 and 404 makes fetch_rate fail with   *)
(* an API error that reaches its caller: once the fetch_rate call that got *)
(* such an answer has ended (it is no longer reading the body or releasing *)
(* the response), get_rates has ended with that error at this day, no      *)
(* later day is fetched and no result list is printed.                     *)
(***************************************************************************)
C1_ApiErrorPropagates ==
    \A k \in 1..Len(outcomes) :
        (IsApiError(outcomes[k]) /\ ~(k = Len(outcomes) /\ pc \in {"body", "release"})) =>
            /\ k = Len(outcomes)
            /\ Len(calls) = k
            /\ pc \in {"returned", "exit", "done"}
            /\ (pc = "returned" => exc.type = "ValueError")
            /\ \A n \in 1..Len(out) : out[n].kind # "rates"

(***************************************************************************)
(* C2.  get_rates(days) with days < 1 or days > 10 fails with the          *)
(* validation error, and no fetch_rate call has been made when it fails.   *)
(***************************************************************************)
C2_OutOfRangeFailsBeforeFetch ==
    (called > 0 /\ (days < 1 \/ days > 10)) =>
        /\ pc = "returned"
        /\ exc.type = "ValueError"
        /\ exc.msg = "Days parameter must be between 1 and 10."
        /\ calls = <<>>
        /\ outcomes = <<>>
        /\ inflight = 0
        /\ rates = <<>>

C2_Witness ==
    /\ pc = "returned"
    /\ days = 11
    /\ session = "open"
    /\ exc.type = "ValueError"

(***************************************************************************)
(* C3.  get_rates(days), days in 1..10, makes at most days fetch_rate      *)
(* calls, never two in flight (a call starts only when every earlier one   *)
(* has been answered), and call number k (from 0) asks for the calendar    *)
(* day k days before today, so the dates are distinct and strictly         *)
(* descending from today.                                                  *)
(***************************************************************************)
C3_SequentialDescendingFetches ==
    LET w == Window(today, Len(calls)) IN
    /\ inflight \in {0, 1}
    /\ Len(outcomes) = Len(calls) - (IF pc = "await" THEN 1 ELSE 0)
    /\ (inflight = 1 <=> pc \in {"await", "body", "release"})
    /\ (called > 0 => Len(calls) <= days)
    /\ \A k \in 1..Len(calls) : calls[k].date = DateKey(w[k])
    /\ \A k \in 1..Len(calls) : k > 1 => Before(w[k], w[k - 1])
    /\ \A j \in 1..Len(calls) : \A k \in (j + 1)..Len(calls) :
         calls[j].date # calls[k].date

C3_Witness ==
    /\ pc = "returned"
    /\ exc = NoExc
    /\ days = 10
    /\ Len(calls) = 10
    /\ today = [y |-> 2024, m |-> 3, d |-> 4]
    /\ calls[5].date = "29.02.2024"

(***************************************************************************)
(* C4.  At every point of get_rates and afterwards, every entry of the     *)
(* result belongs to a requested date whose fetch returned a body with at  *)
(* least one EUR or USD record; the entries are in fetch order, there is   *)
(* at most one per requested date, and there are never more than days.     *)
(***************************************************************************)
C4_ResultEntriesInFetchOrder ==
    /\ Len(rates) <= Len(outcomes)
    /\ (called > 0 => Len(rates) <= days)
    /\ \A j \in 1..Len(rates) :
         \E k \in 1..Len(outcomes) :
             /\ calls[k].date = rates[j].date
             /\ HasTargetRecord(outcomes[k])
    /\ \A j1 \in 1..Len(rates) : \A j2 \in (j1 + 1)..Len(rates) :
         rates[j1].date # rates[j2].date
    /\ \A j \in 1..Len(rates) :
         j > 1 =>
            \A k1 \in 1..Len(calls) : \A k2 \in 1..Len(calls) :
                (calls[k1].date = rates[j - 1].date /\ calls[k2].date = rates[j].date)
                    => k1 < k2

C4_Witness ==
    /\ pc = "done"
    /\ Len(outcomes) = 3
    /\ Len(rates) = 2
    /\ ~HasTargetRecord(outcomes[2])
    /\ rates[1].date = calls[1].date
    /\ rates[2].date = calls[3].date

(***************************************************************************)
(* C5.  When get_rates ends, for every day whose fetch ended in a 404 or a *)
(* transport failure: get_rates did not raise, the result has no entry for *)
(* that day, every day of the window was fetched, and every other day      *)
(* whose body holds an EUR or USD record has its entry.                    *)
(***************************************************************************)
C5_FailedDayOnlyOmitted ==
    pc = "returned" =>
        \A k \in 1..Len(outcomes) :
            IsNotFoundOrTransport(outcomes[k]) =>
                /\ exc = NoExc
                /\ ~HasEntry(calls[k].date)
                /\ Len(calls) = days
                /\ \A k2 \in 1..Len(outcomes) :
                     HasTargetRecord(outcomes[k2]) => HasEntry(calls[k2].date)

(***************************************************************************)
(* C6.  For a well-formed body and a date, the extraction gives exactly    *)
(* the entry date -> {c -> {sale, purchase}} over the records whose        *)
(* currency is exactly EUR or USD, sale and purchase copied from saleRate  *)
(* and purchaseRate of the record (the last one of that currency) and None *)
(* where the key is missing; other currencies are left out, and when no    *)
(* record matches there is no entry and the day is dropped.                *)
(***************************************************************************)
C6_ExtractionIsExact ==
    LET data == baseline.body
        recs == IF data.hasRates THEN data.exchangeRate ELSE <<>>
        hits == {n \in 1..Len(recs) : recs[n]["currency"] \in {"EUR", "USD"}}
        last(c) == CHOOSE n \in hits :
                       /\ recs[n]["currency"] = c
                       /\ \A m \in hits : recs[m]["currency"] = c => m <= n
    IN  pc \in {"loop", "returned"} =>
          /\ exc = NoExc
          /\ IF hits = {}
             THEN rates = <<>>
             ELSE /\ Len(rates) = 1
                  /\ rates[1].date = calls[1].date
                  /\ rates[1].date = DateKey(today)
                  /\ DOMAIN rates[1].rates = {recs[n]["currency"] : n \in hits}
                  /\ \A c \in DOMAIN rates[1].rates :
                       /\ rates[1].rates[c].sale =
                            (IF "saleRate" \in DOMAIN recs[last(c)]
                             THEN recs[last(c)]["saleRate"] ELSE "None")
                       /\ rates[1].rates[c].purchase =
                            (IF "purchaseRate" \in DOMAIN recs[last(c)]
                             THEN recs[last(c)]["purchaseRate"] ELSE "None")

C6_Witness ==
    /\ pc = "returned"
    /\ baseline.body.exchangeRate =
          << MkRate({"currency", "saleRate"}, "EUR", "42.0", "None"),
             MkRate({"currency", "saleRate", "purchaseRate"}, "PLN", "38.5", "38.0") >>
    /\ Len(rates) = 1
    /\ DOMAIN rates[1].rates = {"EUR"}
    /\ rates[1].rates["EUR"] = [sale |-> "42.0", purchase |-> "None"]

(***************************************************************************)
(* C7.  The session is created at most once, when the scope begins, and    *)
(* closed exactly once when the scope ends, however the block ended        *)
(* (get_rates returned, or an exception left it): it is open throughout    *)
(* the block, closed after it, never closed twice and never left open.     *)
(***************************************************************************)
C7_SessionClosedExactlyOnce ==
    /\ opened <= 1
    /\ closed <= opened
    /\ (pc \in {"start", "enter"} => opened = 0 /\ session = "none")
    /\ (pc \in {"call", "loop", "await", "body", "release", "returned", "exit"} =>
            opened = 1 /\ closed = 0 /\ session = "open")
    /\ (pc = "done" /\ opened = 1 => closed = 1 /\ session = "closed")
    /\ (pc = "done" /\ opened = 0 => closed = 0 /\ session = "none")

C7_Witness ==
    /\ pc = "done"
    /\ exc.type = "KeyError"
    /\ Len(outcomes) = 2
    /\ opened = 1
    /\ closed = 1
    /\ session = "closed"

(***************************************************************************)
(* C8.  Run with an argument count other than one, a non-integer argument  *)
(* or an integer outside 1..10, main prints one usage or error line and    *)
(* returns: no session is opened, get_rates is not called, nothing is      *)
(* fetched.                                                                *)
(***************************************************************************)
C8_BadArgumentsNoNetwork ==
    (argv \in UsageArgv \/ IsNonIntegerArgv \/ IsOutOfRangeArgv) =>
        /\ pc \in {"start", "done"}
        /\ opened = 0
        /\ session = "none"
        /\ called = 0
        /\ calls = <<>>
        /\ inflight = 0
        /\ outcomes = <<>>
        /\ exc = NoExc
        /\ (pc = "start" => out = <<>>)
        /\ (pc = "done" =>
              /\ Len(out) = 1
              /\ (argv \in UsageArgv => out[1].kind = "usage")
              /\ (IsNonIntegerArgv =>
                     out[1].text = "<days> must be an integer.")
              /\ (IsOutOfRangeArgv => out[1].kind = "range"))

C8_Witness ==
    /\ pc = "done"
    /\ argv = << <<49, 50>> >>
    /\ days = 12
    /\ Len(out) = 1
    /\ out[1].kind = "range"
    /\ opened = 0

(***************************************************************************)
(* C9.  Every run returns normally: when main has ended no exception has   *)
(* left it, the last thing printed is a usage or error line or the result  *)
(* list, and a run that called get_rates fetched every day of its window.  *)
(***************************************************************************)
C9_EveryRunReturnsNormally ==
    pc = "done" =>
        /\ exc = NoExc
        /\ out # <<>>
        /\ out[Len(out)].kind \in {"usage", "not_integer", "range", "error", "rates"}
        /\ (called > 0 => Len(calls) = days)

(***************************************************************************)
(* C10.  Every fetch_rate call of a run of main is made while the session  *)
(* is open: none before the session is created, none after it is closed,   *)
(* and no request is in flight unless the session is open.                 *)
(***************************************************************************)
C10_FetchOnlyWhileSessionOpen ==
    /\ \A k \in 1..Len(calls) : calls[k].session = "open"
    /\ (calls # <<>> => opened = 1)
    /\ (inflight > 0 => session = "open")
    /\ (pc \in {"loop", "await", "body", "release"} => session = "open")
    /\ (closed > 0 => pc = "done" /\ inflight = 0)

C10_Witness ==
    /\ pc = "await"
    /\ Len(calls) = 3
    /\ inflight = 1
    /\ session = "open"
    /\ closed = 0

====
